---- MODULE Spec2Model ----
(***************************************************************************)
(* Model of keystore2/src/km_compat/km_compat.cpp: the operation slot pool *)
(* (OperationSlots / OperationSlot), the operation sessions               *)
(* (KeyMintOperation) driven through KeyMintDevice::begin, the discovery   *)
(* of the legacy Keymaster instances and the facade cache.                 *)
(***************************************************************************)
EXTENDS Integers, Sequences, FiniteSets, TLC

\* ---------------------------------------------------------------- bounds
\* Number of KeyMintOperation objects that can be alive at the same time.
MaxSessions == 4
\* Largest capacity given to a bare slot pool (SpecSlots).
MaxCapacity == 10
\* Longest instance listing returned by the service manager.
MaxListed == 2
\* Number of threads that call createKeyMintDevice.
NumThreads == 3
NumCallers == 2
MaxOpSessions == 1
MaxParams == 3
MaxFree == 1

\* ------------------------------------------------------------- constants
\* SecurityLevel / KeyMintSecurityLevel, numeric values of the static_assert.
SOFTWARE == 0
TRUSTED_ENVIRONMENT == 1
STRONGBOX == 2
SecurityLevels == {SOFTWARE, TRUSTED_ENVIRONMENT, STRONGBOX}

\* Slot numbers the constructor passes to setNumFreeSlots.
StrongboxSlots == 3
DefaultSlots == 15

\* mNumFreeSlots is a uint8_t.
Uint8 == 256

\* Outcomes of a call to the legacy backend: the call could not be delivered
\* (result.isOk() is false) or the backend reported a V4_0 ErrorCode.
TRANSPORT_FAILURE == "TRANSPORT_FAILURE"
OK == "OK"
TOO_MANY_OPERATIONS == "TOO_MANY_OPERATIONS"
UNKNOWN_ERROR == "UNKNOWN_ERROR"
INVALID_KEY_BLOB == "INVALID_KEY_BLOB"
SYSTEM_ERROR == "SYSTEM_ERROR"
\* The codes the modelled backend reports: success and one error code (the
\* code paths only distinguish OK from any other code).
LegacyErrorCodes == {OK, UNKNOWN_ERROR}
BackendOutcomes == LegacyErrorCodes \cup {TRANSPORT_FAILURE}
\* The error codes the backend answers to the calls of a key creation.
KeyErrorCodes == {UNKNOWN_ERROR, INVALID_KEY_BLOB}

\* A null pointer.
Null == [null |-> TRUE]

VARIABLES
    securityLevel,   \* KeyMintSecurityLevel the facade was constructed with
    mNumFreeSlots,   \* OperationSlots::mNumFreeSlots of the facade (or bare pool)
    ops,             \* the KeyMintOperation objects, by object slot
    last,            \* what the most recent call did (observation record)
    capacity,        \* SpecSlots: the n given to setNumFreeSlots
    held,            \* SpecSlots: successful claimSlot calls not yet released
    slotCall,        \* SpecSlots: what the most recent pool call did
    env,             \* SpecService: what the service manager lists
    device_ptr,      \* static device_ptr of createKeyMintDevice
    mDeviceCache,    \* KeystoreCompatService::mDeviceCache
    ret,             \* SpecService: outcome of the most recent getKeyMintDevice
    pc,              \* SpecThreads: where each thread is in createKeyMintDevice
    mutex,           \* SpecThreads: holder of the static mutex (0: free)
    req,             \* SpecThreads: the security level each thread asks for
    got,             \* SpecThreads: what createKeyMintDevice returned to each
    discoveries,     \* SpecThreads: number of initializeKeymasters runs
    constructed,     \* SpecThreads: number of KeyMintDevice objects constructed
    disc,            \* SpecDiscovery: what one run of initializeKeymasters did
    creation,        \* SpecKeys: one generateKey/importKey call and its result
    choice,          \* SpecParams: one getMaximum call and its result
    mNumFreeSlotsMutex,  \* SpecOps: the caller holding the pool's mutex, 0 if none
    callers,         \* SpecOps: where each caller thread is in its facade call
    overlapped       \* SpecOps: sessions with two terminating calls at the same time

vars == <<securityLevel, mNumFreeSlots, ops, last, capacity, held, slotCall,
          env, device_ptr, mDeviceCache, ret,
          pc, mutex, req, got, discoveries, constructed, disc,
          creation, choice, mNumFreeSlotsMutex, callers, overlapped>>

opsVars == <<mNumFreeSlotsMutex, callers, overlapped>>

\* No caller thread is inside the facade.
NoCallers == mNumFreeSlotsMutex = 0 /\ callers = <<>> /\ overlapped = {}

poolVars == <<capacity, held, slotCall>>
serviceVars == <<env, device_ptr, mDeviceCache, ret>>
threadVars == <<pc, mutex, req, got, discoveries, constructed>>
\* The variables of the specifications defined further down.
restVars == <<threadVars, disc, creation, choice, opsVars>>

\* No thread is inside createKeyMintDevice.
NoThreads ==
    /\ pc = <<>>
    /\ mutex = 0
    /\ req = <<>>
    /\ got = <<>>
    /\ discoveries = 0
    /\ constructed = 0

RestIdle ==
    NoThreads /\ disc = Null /\ creation = Null /\ choice = Null /\ NoCallers

\* ------------------------------------------------------------ status
\* ScopedAStatus: ok, or a service specific error carrying a code.
StatusOk == [isOk |-> TRUE, err |-> OK]
fromServiceSpecificError(code) == [isOk |-> FALSE, err |-> code]

convertErrorCode(result) ==
    IF result = OK THEN StatusOk ELSE fromServiceSpecificError(result)

\* ------------------------------------------------------------ slot pool
setNumFreeSlots(numFreeSlots) == numFreeSlots % Uint8

\* claimSlot without the test of the counter: the uint8_t wraps around.
claimSlotUnchecked(n) == [claimed |-> TRUE, n |-> (n - 1) % Uint8]

\* claimSlot keeping one slot back (off by one).
claimSlotOffByOne(n) ==
    IF n > 1 THEN [claimed |-> TRUE, n |-> n - 1]
             ELSE [claimed |-> FALSE, n |-> n]

\* OperationSlots::claimSlot: the result and the counter afterwards.
claimSlot(n) ==
    IF n > 0 THEN [claimed |-> TRUE, n |-> n - 1]
             ELSE [claimed |-> FALSE, n |-> n]

\* OperationSlots::freeSlot: the counter afterwards.
OperationSlots_freeSlot(n) == (n + 1) % Uint8

\* OperationSlot::freeSlot without the mIsActive guard.
OperationSlot_freeSlotUnguarded(active, n) ==
    [mIsActive |-> FALSE, n |-> OperationSlots_freeSlot(n), freed |-> 1]

\* OperationSlot::freeSlot on a slot whose flag is `active`, pool counter n:
\* the flag and the counter afterwards, and how often the pool was released.
OperationSlot_freeSlot(active, n) ==
    IF active
    THEN [mIsActive |-> FALSE, n |-> OperationSlots_freeSlot(n), freed |-> 1]
    ELSE [mIsActive |-> active, n |-> n, freed |-> 0]

\* OperationSlot::hasSlot (declared in km_compat.h).
hasSlot(active) == active

\* A constructor that gives every security level the default slot number.
KeyMintDeviceOneSize(level) == setNumFreeSlots(DefaultSlots)

\* KeyMintDevice::KeyMintDevice: the pool counter after construction.
KeyMintDevice(level) ==
    IF level = STRONGBOX THEN setNumFreeSlots(StrongboxSlots)
                         ELSE setNumFreeSlots(DefaultSlots)

\* ------------------------------------------------------------ sessions
SessionIds == 1..MaxSessions

NoOp == [st |-> "none", mIsActive |-> FALSE, mOperationHandle |-> 0,
         beganOk |-> FALSE, released |-> 0]

\* KeyMintOperation(mDevice, operationHandle, &mOperationSlots, isActive)
KeyMintOperation(handle, isActive) ==
    [st |-> "alive", mIsActive |-> isActive, mOperationHandle |-> handle,
     beganOk |-> isActive, released |-> 0]

FreeIds == {i \in SessionIds : ops[i].st = "none"}
LowestFreeId == CHOOSE i \in FreeIds : \A j \in FreeIds : i <= j

NumActive == Cardinality({i \in SessionIds : ops[i].st = "alive" /\ ops[i].mIsActive})

\* Observation of one call: the object it was made on as it was before the
\* call (o), the backend's answer, the status returned, the backend calls made,
\* the number of pool releases made by the call and by the object so far.
Observe(op, id, o, outcome, status, calls, released, total, warned) ==
    [op |-> op, id |-> id, wasActive |-> o.mIsActive, beganOk |-> o.beganOk,
     handle |-> o.mOperationHandle, outcome |-> outcome, status |-> status,
     calls |-> calls, freeBefore |-> mNumFreeSlots, activeBefore |-> NumActive,
     released |-> released, total |-> total, warned |-> warned]

NoSlotCall == [op |-> "none", prevOp |-> "none", claimed |-> FALSE,
               freeBefore |-> 0, heldBefore |-> 0]

BackendCall(fn, handle) == [fn |-> fn, handle |-> handle]

\* ------------------------------------------------------------ operations
\* begin that calls the backend first and claims the slot afterwards.
beginBackendFirst(n, outcome, handle) ==
    LET c == claimSlot(n) IN
    IF outcome = TRANSPORT_FAILURE
    THEN [n |-> n, status |-> fromServiceSpecificError(SYSTEM_ERROR),
          calls |-> <<BackendCall("begin", 0)>>, operation |-> NoOp]
    ELSE IF ~c.claimed
    THEN [n |-> c.n, status |-> convertErrorCode(TOO_MANY_OPERATIONS),
          calls |-> <<BackendCall("begin", 0)>>, operation |-> NoOp]
    ELSE [n |-> IF outcome # OK THEN n ELSE c.n,
          status |-> convertErrorCode(outcome),
          calls |-> <<BackendCall("begin", 0)>>,
          operation |-> KeyMintOperation(handle, outcome = OK)]

\* begin that keeps the slot when the backend reports an error code.
beginKeepOnErrorCode(n, outcome, handle) ==
    LET c == claimSlot(n) IN
    IF ~c.claimed
    THEN [n |-> c.n, status |-> convertErrorCode(TOO_MANY_OPERATIONS),
          calls |-> <<>>, operation |-> NoOp]
    ELSE IF outcome = TRANSPORT_FAILURE
    THEN [n |-> OperationSlots_freeSlot(c.n),
          status |-> fromServiceSpecificError(SYSTEM_ERROR),
          calls |-> <<BackendCall("begin", 0)>>, operation |-> NoOp]
    ELSE [n |-> c.n,
          status |-> convertErrorCode(outcome),
          calls |-> <<BackendCall("begin", 0)>>,
          operation |-> KeyMintOperation(handle, outcome = OK)]

\* KeyMintDevice::begin with pool counter n, the backend answering `outcome`
\* and handing out `handle`: the counter afterwards, the status returned, the
\* backend calls made, and the operation object put into the BeginResult.
begin(n, outcome, handle) ==
    LET c == claimSlot(n) IN
    IF ~c.claimed
    THEN [n |-> c.n, status |-> convertErrorCode(TOO_MANY_OPERATIONS),
          calls |-> <<>>, operation |-> NoOp]
    ELSE IF outcome = TRANSPORT_FAILURE
    THEN [n |-> OperationSlots_freeSlot(c.n),
          status |-> fromServiceSpecificError(SYSTEM_ERROR),
          calls |-> <<BackendCall("begin", 0)>>, operation |-> NoOp]
    ELSE [n |-> IF outcome # OK THEN OperationSlots_freeSlot(c.n) ELSE c.n,
          status |-> convertErrorCode(outcome),
          calls |-> <<BackendCall("begin", 0)>>,
          operation |-> KeyMintOperation(handle, outcome = OK)]

\* update that releases the slot on a transport failure only.
updateKeepOnErrorCode(o, n, outcome) ==
    LET f == IF outcome = TRANSPORT_FAILURE
             THEN OperationSlot_freeSlot(o.mIsActive, n)
             ELSE [mIsActive |-> o.mIsActive, n |-> n, freed |-> 0]
    IN [operation |-> [o EXCEPT !.mIsActive = f.mIsActive,
                                !.released = @ + f.freed],
        n |-> f.n,
        status |-> IF outcome = TRANSPORT_FAILURE
                   THEN fromServiceSpecificError(SYSTEM_ERROR)
                   ELSE convertErrorCode(outcome),
        calls |-> <<BackendCall("update", o.mOperationHandle)>>,
        freed |-> f.freed]

\* KeyMintOperation::update on object o.
update(o, n, outcome) ==
    LET f == IF outcome # OK THEN OperationSlot_freeSlot(o.mIsActive, n)
                             ELSE [mIsActive |-> o.mIsActive, n |-> n, freed |-> 0]
    IN [operation |-> [o EXCEPT !.mIsActive = f.mIsActive,
                                !.released = @ + f.freed],
        n |-> f.n,
        status |-> IF outcome = TRANSPORT_FAILURE
                   THEN fromServiceSpecificError(SYSTEM_ERROR)
                   ELSE convertErrorCode(outcome),
        calls |-> <<BackendCall("update", o.mOperationHandle)>>,
        freed |-> f.freed]

\* finish that returns on a transport failure before releasing the slot.
finishReturnEarly(o, n, outcome) ==
    LET f == IF outcome # TRANSPORT_FAILURE
             THEN OperationSlot_freeSlot(o.mIsActive, n)
             ELSE [mIsActive |-> o.mIsActive, n |-> n, freed |-> 0]
    IN [operation |-> [o EXCEPT !.mIsActive = f.mIsActive,
                                !.released = @ + f.freed],
        n |-> f.n,
        status |-> IF outcome = TRANSPORT_FAILURE
                   THEN fromServiceSpecificError(SYSTEM_ERROR)
                   ELSE convertErrorCode(outcome),
        calls |-> <<BackendCall("finish", o.mOperationHandle)>>,
        freed |-> f.freed]

\* KeyMintOperation::finish on object o.
finish(o, n, outcome) ==
    LET f == OperationSlot_freeSlot(o.mIsActive, n)
    IN [operation |-> [o EXCEPT !.mIsActive = f.mIsActive,
                                !.released = @ + f.freed],
        n |-> f.n,
        status |-> IF outcome = TRANSPORT_FAILURE
                   THEN fromServiceSpecificError(SYSTEM_ERROR)
                   ELSE convertErrorCode(outcome),
        calls |-> <<BackendCall("finish", o.mOperationHandle)>>,
        freed |-> f.freed]

\* abort that releases the pool directly instead of through its slot.
abortDirectRelease(o, n, errorCode) ==
    [operation |-> [o EXCEPT !.mIsActive = FALSE, !.released = @ + 1],
     n |-> OperationSlots_freeSlot(n),
     status |-> convertErrorCode(errorCode),
     calls |-> <<BackendCall("abort", o.mOperationHandle)>>,
     freed |-> 1]

\* KeyMintOperation::abort on object o; the backend's abort returns an
\* ErrorCode directly.
abort(o, n, errorCode) ==
    LET f == OperationSlot_freeSlot(o.mIsActive, n)
    IN [operation |-> [o EXCEPT !.mIsActive = f.mIsActive,
                                !.released = @ + f.freed],
        n |-> f.n,
        status |-> convertErrorCode(errorCode),
        calls |-> <<BackendCall("abort", o.mOperationHandle)>>,
        freed |-> f.freed]

\* A destructor that aborts whether or not the slot is still held.
destroyAlwaysAbort(o, n, errorCode) ==
    LET a == abort(o, n, errorCode)
    IN [operation |-> a.operation, n |-> a.n, calls |-> a.calls,
        freed |-> a.freed, warned |-> ~a.status.isOk]

\* A destructor that leaves an operation that still holds its slot alone.
destroyNoAbort(o, n, errorCode) ==
    [operation |-> o, n |-> n, calls |-> <<>>, freed |-> 0, warned |-> FALSE]

\* KeyMintOperation::~KeyMintOperation on object o: `warned` is the
\* LOG(WARNING) of a failed abort; the destructor returns nothing.
destroy(o, n, errorCode) ==
    IF hasSlot(o.mIsActive)
    THEN LET a == abort(o, n, errorCode)
         IN [operation |-> a.operation, n |-> a.n, calls |-> a.calls,
             freed |-> a.freed, warned |-> ~a.status.isOk]
    ELSE [operation |-> o, n |-> n, calls |-> <<>>, freed |-> 0,
          warned |-> FALSE]

\* ------------------------------------------------------------ facade actions
\* A client calls begin(); the new operation object, if any, takes the lowest
\* free object slot and the backend names the operation by that number.
Begin(outcome) ==
    LET needsObject == claimSlot(mNumFreeSlots).claimed /\ outcome # TRANSPORT_FAILURE
        id == IF needsObject THEN LowestFreeId ELSE 0
        r == begin(mNumFreeSlots, outcome, id)
    IN /\ needsObject => FreeIds # {}
       /\ mNumFreeSlots' = r.n
       /\ ops' = IF needsObject THEN [ops EXCEPT ![id] = r.operation] ELSE ops
       /\ last' = Observe("begin", id, NoOp, outcome, r.status, r.calls, 0, 0, FALSE)
       /\ UNCHANGED <<securityLevel, poolVars, serviceVars, restVars>>

Update(i, outcome) ==
    /\ ops[i].st = "alive"
    /\ LET r == update(ops[i], mNumFreeSlots, outcome)
       IN /\ mNumFreeSlots' = r.n
          /\ ops' = [ops EXCEPT ![i] = r.operation]
          /\ last' = Observe("update", i, ops[i], outcome, r.status, r.calls,
                              r.freed, r.operation.released, FALSE)
    /\ UNCHANGED <<securityLevel, poolVars, serviceVars, restVars>>

Finish(i, outcome) ==
    /\ ops[i].st = "alive"
    /\ LET r == finish(ops[i], mNumFreeSlots, outcome)
       IN /\ mNumFreeSlots' = r.n
          /\ ops' = [ops EXCEPT ![i] = r.operation]
          /\ last' = Observe("finish", i, ops[i], outcome, r.status, r.calls,
                              r.freed, r.operation.released, FALSE)
    /\ UNCHANGED <<securityLevel, poolVars, serviceVars, restVars>>

Abort(i, errorCode) ==
    /\ ops[i].st = "alive"
    /\ LET r == abort(ops[i], mNumFreeSlots, errorCode)
       IN /\ mNumFreeSlots' = r.n
          /\ ops' = [ops EXCEPT ![i] = r.operation]
          /\ last' = Observe("abort", i, ops[i], errorCode, r.status, r.calls,
                              r.freed, r.operation.released, FALSE)
    /\ UNCHANGED <<securityLevel, poolVars, serviceVars, restVars>>

\* The last reference to the operation object is dropped.
Destroy(i, errorCode) ==
    /\ ops[i].st = "alive"
    /\ LET r == destroy(ops[i], mNumFreeSlots, errorCode)
       IN /\ mNumFreeSlots' = r.n
          /\ ops' = [ops EXCEPT ![i] = NoOp]
          /\ last' = Observe("destroy", i, ops[i], errorCode, StatusOk, r.calls,
                              r.freed, r.operation.released, r.warned)
    /\ UNCHANGED <<securityLevel, poolVars, serviceVars, restVars>>

\* The state after KeyMintDevice's constructor, for each security level.
Init ==
    /\ securityLevel \in SecurityLevels
    /\ mNumFreeSlots = KeyMintDevice(securityLevel)
    /\ ops = [i \in SessionIds |-> NoOp]
    /\ last = Observe("none", 0, NoOp, OK, StatusOk, <<>>, 0, 0, FALSE)
    /\ capacity = 0
    /\ held = 0
    /\ slotCall = NoSlotCall
    /\ env = Null
    /\ device_ptr = Null
    /\ mDeviceCache = Null
    /\ ret = Null
    /\ RestIdle

Next ==
    \/ \E outcome \in BackendOutcomes : Begin(outcome)
    \/ \E i \in SessionIds, outcome \in BackendOutcomes : Update(i, outcome)
    \/ \E i \in SessionIds, outcome \in BackendOutcomes : Finish(i, outcome)
    \/ \E i \in SessionIds, errorCode \in LegacyErrorCodes : Abort(i, errorCode)
    \/ \E i \in SessionIds, errorCode \in LegacyErrorCodes : Destroy(i, errorCode)

Spec == Init /\ [][Next]_vars

\* ------------------------------------------------------------ bare slot pool
\* An OperationSlots object set to capacity n and used directly: claimSlot at
\* any time, freeSlot only for a claim that succeeded and was not yet released.
InitSlots ==
    /\ capacity \in 0..MaxCapacity
    /\ mNumFreeSlots = setNumFreeSlots(capacity)
    /\ held = 0
    /\ slotCall = NoSlotCall
    /\ securityLevel = Null
    /\ ops = [i \in SessionIds |-> NoOp]
    /\ last = Null
    /\ env = Null
    /\ device_ptr = Null
    /\ mDeviceCache = Null
    /\ ret = Null
    /\ RestIdle

TryAcquire ==
    LET c == claimSlot(mNumFreeSlots)
    IN /\ mNumFreeSlots' = c.n
       /\ held' = IF c.claimed THEN held + 1 ELSE held
       /\ slotCall' = [op |-> "claimSlot", prevOp |-> slotCall.op,
                       claimed |-> c.claimed, freeBefore |-> mNumFreeSlots,
                       heldBefore |-> held]
       /\ UNCHANGED <<securityLevel, ops, last, capacity, serviceVars, restVars>>

Release ==
    /\ held > 0
    /\ mNumFreeSlots' = OperationSlots_freeSlot(mNumFreeSlots)
    /\ held' = held - 1
    /\ slotCall' = [op |-> "freeSlot", prevOp |-> slotCall.op, claimed |-> FALSE,
                    freeBefore |-> mNumFreeSlots, heldBefore |-> held]
    /\ UNCHANGED <<securityLevel, ops, last, capacity, serviceVars, restVars>>

NextSlots == TryAcquire \/ Release

SpecSlots == InitSlots /\ [][NextSlots]_vars

\* ------------------------------------------------------------ discovery
\* What the service manager holds for one wrapper (Keymaster4 or Keymaster3):
\* the instances listManifestByInterface names, in its order, each with the
\* security level its halVersion reports, and the level of a passthrough
\* "default" instance that getService finds although it is not listed (a
\* sequence: empty when there is none).
InstanceNames == {"default", "strongbox"}
Instances == [name : InstanceNames, level : SecurityLevels]

DistinctNames(l) == \A a, b \in DOMAIN l : a # b => l[a].name # l[b].name

Listings ==
    {l \in UNION {[1..n -> Instances] : n \in 0..MaxListed} : DistinctNames(l)}

ListsDefault(l) == \E a \in DOMAIN l : l[a].name = "default"

Managers ==
    {m \in [listed : Listings,
             passthrough : {<<>>} \cup {<<l>> : l \in SecurityLevels}] :
        ListsDefault(m.listed) => m.passthrough = <<>>}

\* sp<Keymaster> kmDevice(new Wrapper(device, name))
Wrapper(version, name, level) == [version |-> version, name |-> name, level |-> level]

NoDevices == [slots |-> [l \in SecurityLevels |-> Null], warnings |-> <<>>,
              probes |-> <<>>]

\* try_get_device that lets a later instance take an occupied slot.
try_get_deviceLastWins(result, name, device, fail_silent) ==
    LET probed == [result EXCEPT !.probes = Append(@, name)]
    IN IF fail_silent /\ device = Null
       THEN probed
       ELSE IF probed.slots[device.level] # Null /\ ~fail_silent
       THEN [probed EXCEPT !.warnings = Append(@, device),
                           !.slots[device.level] = device]
       ELSE [probed EXCEPT !.slots[device.level] = device]

\* try_get_device: getService(name) is called (logged in probes) and returned
\* `device` (Null when nothing); the LOG(WARNING) of a masked implementation
\* is logged in warnings. A listed instance always resolves, so that
\* CHECK(device) passes.
try_get_device(result, name, device, fail_silent) ==
    LET probed == [result EXCEPT !.probes = Append(@, name)]
    IN IF fail_silent /\ device = Null
       THEN probed
       ELSE IF probed.slots[device.level] # Null
       THEN IF ~fail_silent
            THEN [probed EXCEPT !.warnings = Append(@, device)]
            ELSE probed
       ELSE [probed EXCEPT !.slots[device.level] = device]

RECURSIVE try_listed(_, _, _, _)
\* for (auto& n : names) try_get_device(n, false), from position k on.
try_listed(result, version, listed, k) ==
    IF k > Len(listed)
    THEN result
    ELSE try_listed(
             try_get_device(result, listed[k].name,
                            Wrapper(version, listed[k].name, listed[k].level),
                            FALSE),
             version, listed, k + 1)

\* What getService("default") returns for a manager that does not list it.
PassthroughDefault(version, manager) ==
    IF manager.passthrough = <<>>
    THEN Null
    ELSE Wrapper(version, "default", manager.passthrough[1])

\* enumerateKeymasterDevices that probes "default" again after the listing
\* whether or not it was listed.
enumerateAlwaysProbe(version, manager) ==
    LET listedResult == try_listed(NoDevices, version, manager.listed, 1)
        again == IF ListsDefault(manager.listed)
                 THEN LET a == CHOOSE k \in DOMAIN manager.listed :
                                   manager.listed[k].name = "default"
                      IN Wrapper(version, "default", manager.listed[a].level)
                 ELSE PassthroughDefault(version, manager)
    IN try_get_device(listedResult, "default", again, TRUE)

\* enumerateKeymasterDevices<Wrapper>
enumerateKeymasterDevices(version, manager) ==
    LET listedResult == try_listed(NoDevices, version, manager.listed, 1)
        has_default == ListsDefault(manager.listed)
    IN IF ~has_default
       THEN try_get_device(listedResult, "default",
                           PassthroughDefault(version, manager), TRUE)
       ELSE listedResult

\* initializeKeymasters that leaves the promoted device in the SOFTWARE slot.
initializeKeymastersKeepSoft(e) ==
    LET first == enumerateKeymasterDevices(4, e.km4).slots
        softKeymaster == first[SOFTWARE]
        second == IF first[TRUSTED_ENVIRONMENT] = Null
                  THEN enumerateKeymasterDevices(3, e.km3).slots
                  ELSE first
        third == IF softKeymaster # Null
                 THEN [second EXCEPT ![SOFTWARE] = softKeymaster]
                 ELSE second
    IN IF third[SOFTWARE] # Null /\ third[TRUSTED_ENVIRONMENT] = Null
       THEN [third EXCEPT ![TRUSTED_ENVIRONMENT] = third[SOFTWARE]]
       ELSE third

\* initializeKeymasters: the table of devices by security level.
initializeKeymasters(e) ==
    LET first == enumerateKeymasterDevices(4, e.km4).slots
        softKeymaster == first[SOFTWARE]
        second == IF first[TRUSTED_ENVIRONMENT] = Null
                  THEN enumerateKeymasterDevices(3, e.km3).slots
                  ELSE first
        third == IF softKeymaster # Null
                 THEN [second EXCEPT ![SOFTWARE] = softKeymaster]
                 ELSE second
    IN IF third[SOFTWARE] # Null /\ third[TRUSTED_ENVIRONMENT] = Null
       THEN [third EXCEPT ![TRUSTED_ENVIRONMENT] = third[SOFTWARE],
                          ![SOFTWARE] = Null]
       ELSE third

Environments == [km4 : Managers, km3 : Managers]

\* One run of initializeKeymasters on the service manager contents env: the
\* result of the Keymaster4 enumeration, whether the Keymaster3 enumeration
\* ran and its result, and the table returned.
InitDiscovery ==
    /\ env \in Environments
    /\ disc = [done |-> FALSE, first |-> NoDevices, fallback |-> FALSE,
               second |-> NoDevices, table |-> NoDevices.slots]
    /\ NoThreads
    /\ creation = Null
    /\ choice = Null
    /\ NoCallers
    /\ device_ptr = Null
    /\ mDeviceCache = Null
    /\ ret = Null
    /\ securityLevel = Null
    /\ mNumFreeSlots = 0
    /\ ops = [i \in SessionIds |-> NoOp]
    /\ last = Null
    /\ capacity = 0
    /\ held = 0
    /\ slotCall = NoSlotCall

Discover ==
    /\ ~disc.done
    /\ LET first == enumerateKeymasterDevices(4, env.km4)
           fallback == first.slots[TRUSTED_ENVIRONMENT] = Null
       IN disc' = [done |-> TRUE, first |-> first, fallback |-> fallback,
                   second |-> IF fallback
                              THEN enumerateKeymasterDevices(3, env.km3)
                              ELSE NoDevices,
                   table |-> initializeKeymasters(env)]
    /\ UNCHANGED <<securityLevel, mNumFreeSlots, ops, last, poolVars,
                   serviceVars, threadVars, creation, choice, opsVars>>

NextDiscovery == Discover

SpecDiscovery == InitDiscovery /\ [][NextDiscovery]_vars

\* ------------------------------------------------------------ facade cache
\* ndk::SharedRefBase::make<KeyMintDevice>(device, securityLevel)
makeKeyMintDevice(device, level) ==
    [mDevice |-> device, securityLevel |-> level,
     mNumFreeSlots |-> KeyMintDevice(level)]

\* KeyMintDevice::createKeyMintDevice with the static device_ptr being ptr:
\* the static afterwards and the pointer returned.
createKeyMintDevice(ptr, e, level) ==
    IF ptr = Null
    THEN LET device == initializeKeymasters(e)[level]
         IN IF device = Null
            THEN [device_ptr |-> ptr, returned |-> Null]
            ELSE LET made == makeKeyMintDevice(device, level)
                 IN [device_ptr |-> made, returned |-> made]
    ELSE [device_ptr |-> ptr, returned |-> ptr]

\* KeystoreCompatService::getKeyMintDevice
GetKeyMintDevice(level) ==
    IF mDeviceCache[level] = Null
    THEN LET c == createKeyMintDevice(device_ptr, env, level)
         IN /\ device_ptr' = c.device_ptr
            /\ IF c.returned = Null
               THEN /\ mDeviceCache' = mDeviceCache
                    /\ ret' = [level |-> level, isOk |-> FALSE, device |-> Null]
               ELSE /\ mDeviceCache' = [mDeviceCache EXCEPT ![level] = c.returned]
                    /\ ret' = [level |-> level, isOk |-> TRUE,
                               device |-> c.returned]
            /\ UNCHANGED <<securityLevel, mNumFreeSlots, ops, last, poolVars, env, restVars>>
    ELSE /\ ret' = [level |-> level, isOk |-> TRUE, device |-> mDeviceCache[level]]
         /\ UNCHANGED <<securityLevel, mNumFreeSlots, ops, last, poolVars, env,
                        device_ptr, mDeviceCache, restVars>>

\* A fresh process: nothing discovered, nothing cached.
InitService ==
    /\ env \in Environments
    /\ device_ptr = Null
    /\ mDeviceCache = [l \in SecurityLevels |-> Null]
    /\ ret = [level |-> SOFTWARE, isOk |-> FALSE, device |-> Null]
    /\ securityLevel = Null
    /\ mNumFreeSlots = 0
    /\ ops = [i \in SessionIds |-> NoOp]
    /\ last = Null
    /\ capacity = 0
    /\ held = 0
    /\ slotCall = NoSlotCall
    /\ RestIdle

NextService == \E level \in SecurityLevels : GetKeyMintDevice(level)

SpecService == InitService /\ [][NextService]_vars

\* ------------------------------------------------------------ threads
\* Several binder threads call KeyMintDevice::createKeyMintDevice, once each.
\* The function body runs under std::lock_guard on the static mutex.
Threads == 1..NumThreads

\* A lock that excludes nobody.
lockNoExclusion(m, t) == TRUE

\* std::lock_guard<std::mutex> lock(mutex): thread t gets the mutex when free.
lock_guard(m, t) == m = 0

\* The service manager contents the thread specification starts from: the
\* Keymaster4 listings, nothing registered for Keymaster3.
ThreadEnvironments ==
    {e \in Environments :
        /\ e.km3 = [listed |-> <<>>, passthrough |-> <<>>]
        /\ e.km4.passthrough = <<>>}

InitThreads ==
    /\ env \in ThreadEnvironments
    /\ device_ptr = Null
    /\ pc = [t \in Threads |-> "idle"]
    /\ mutex = 0
    /\ req = [t \in Threads |-> SOFTWARE]
    /\ got = [t \in Threads |-> Null]
    /\ discoveries = 0
    /\ constructed = 0
    /\ disc = Null
    /\ creation = Null
    /\ choice = Null
    /\ NoCallers
    /\ mDeviceCache = [l \in SecurityLevels |-> Null]
    /\ ret = Null
    /\ securityLevel = Null
    /\ mNumFreeSlots = 0
    /\ ops = [i \in SessionIds |-> NoOp]
    /\ last = Null
    /\ capacity = 0
    /\ held = 0
    /\ slotCall = NoSlotCall

threadFrame ==
    UNCHANGED <<securityLevel, mNumFreeSlots, ops, last, poolVars, env,
                mDeviceCache, ret, disc, creation, choice, opsVars>>

\* Thread t enters createKeyMintDevice(level).
T_Call(t, level) ==
    /\ pc[t] = "idle"
    /\ req' = [req EXCEPT ![t] = level]
    /\ pc' = [pc EXCEPT ![t] = "lock"]
    /\ UNCHANGED <<device_ptr, mutex, got, discoveries, constructed>>
    /\ threadFrame

T_Lock(t) ==
    /\ pc[t] = "lock"
    /\ lock_guard(mutex, t)
    /\ mutex' = t
    /\ pc' = [pc EXCEPT ![t] = "test"]
    /\ UNCHANGED <<device_ptr, req, got, discoveries, constructed>>
    /\ threadFrame

\* if (!device_ptr)
T_Test(t) ==
    /\ pc[t] = "test"
    /\ pc' = [pc EXCEPT ![t] = IF device_ptr = Null THEN "discover" ELSE "return"]
    /\ UNCHANGED <<device_ptr, mutex, req, got, discoveries, constructed>>
    /\ threadFrame

\* auto devices = initializeKeymasters(); if (!device) return {};
T_Discover(t) ==
    /\ pc[t] = "discover"
    /\ discoveries' = discoveries + 1
    /\ IF initializeKeymasters(env)[req[t]] = Null
       THEN /\ got' = [got EXCEPT ![t] = Null]
            /\ pc' = [pc EXCEPT ![t] = "unlock"]
       ELSE /\ got' = got
            /\ pc' = [pc EXCEPT ![t] = "make"]
    /\ UNCHANGED <<device_ptr, mutex, req, constructed>>
    /\ threadFrame

\* device_ptr = ndk::SharedRefBase::make<KeyMintDevice>(device, securityLevel)
T_Make(t) ==
    /\ pc[t] = "make"
    /\ device_ptr' = makeKeyMintDevice(initializeKeymasters(env)[req[t]], req[t])
    /\ constructed' = constructed + 1
    /\ pc' = [pc EXCEPT ![t] = "return"]
    /\ UNCHANGED <<mutex, req, got, discoveries>>
    /\ threadFrame

\* return device_ptr;
T_Return(t) ==
    /\ pc[t] = "return"
    /\ got' = [got EXCEPT ![t] = device_ptr]
    /\ pc' = [pc EXCEPT ![t] = "unlock"]
    /\ UNCHANGED <<device_ptr, mutex, req, discoveries, constructed>>
    /\ threadFrame

\* The lock_guard goes out of scope.
T_Unlock(t) ==
    /\ pc[t] = "unlock"
    /\ mutex' = 0
    /\ pc' = [pc EXCEPT ![t] = "done"]
    /\ UNCHANGED <<device_ptr, req, got, discoveries, constructed>>
    /\ threadFrame

NextThreads ==
    \E t \in Threads :
        \/ \E level \in SecurityLevels : T_Call(t, level)
        \/ T_Lock(t)
        \/ T_Test(t)
        \/ T_Discover(t)
        \/ T_Make(t)
        \/ T_Return(t)
        \/ T_Unlock(t)

SpecThreads == InitThreads /\ [][NextThreads]_vars

\* ------------------------------------------------------------ claims
\* The slot number the security level of the facade is configured with.
TierMax(level) == IF level = STRONGBOX THEN StrongboxSlots ELSE DefaultSlots

Target == IF last.id \in SessionIds THEN ops[last.id] ELSE NoOp

\* C1: for a slot pool set to capacity n, with every release following a
\* distinct successful acquire: the acquires not yet released never exceed n;
\* an acquire succeeds exactly when fewer than n are unreleased, a failed one
\* leaves the counter unchanged; a release gives back exactly one acquire.
C1_SlotPoolBound ==
    /\ held <= capacity
    /\ mNumFreeSlots = capacity - held
    /\ slotCall.op = "claimSlot" =>
         /\ slotCall.claimed <=> slotCall.heldBefore < capacity
         /\ slotCall.claimed => held = slotCall.heldBefore + 1
         /\ ~slotCall.claimed => /\ held = slotCall.heldBefore
                                 /\ mNumFreeSlots = slotCall.freeBefore
    /\ slotCall.op = "freeSlot" =>
         /\ held = slotCall.heldBefore - 1
         /\ mNumFreeSlots = slotCall.freeBefore + 1

\* A pool of capacity >= 2 is full again by an acquire that followed a release.
C1_Witness ==
    /\ capacity >= 2
    /\ slotCall.op = "claimSlot" /\ slotCall.prevOp = "freeSlot"
    /\ slotCall.claimed /\ held = capacity /\ mNumFreeSlots = 0

\* C2: a session created by a successful begin gives its slot back exactly
\* once: not while it is active, once when it becomes terminal, and never a
\* second time by later finish/abort calls or by its destruction; the pool's
\* free count is the capacity minus the number of active sessions.
C2_ReleasedExactlyOnce ==
    /\ \A i \in SessionIds :
         (ops[i].st = "alive" /\ ops[i].beganOk) =>
             ops[i].released = IF ops[i].mIsActive THEN 0 ELSE 1
    /\ (last.op \in {"finish", "abort", "destroy"} /\ last.beganOk) =>
             last.total = 1
    /\ mNumFreeSlots = TierMax(securityLevel) - NumActive

\* A session that was already terminal is aborted again.
C2_Witness ==
    /\ last.op = "abort" /\ last.beganOk /\ ~last.wasActive
    /\ last.total = 1 /\ last.released = 0

\* C3: the free-slot count stays between 0 and the configured maximum of the
\* facade's security level (3 for STRONGBOX, 15 otherwise).
C3_CountInRange ==
    /\ mNumFreeSlots >= 0
    /\ mNumFreeSlots <= TierMax(securityLevel)

\* The pool of a STRONGBOX facade is exhausted by a begin.
C3_Witness ==
    /\ securityLevel = STRONGBOX /\ mNumFreeSlots = 0
    /\ last.op = "begin" /\ last.status.isOk

\* C4: on a STRONGBOX facade whose backend accepts the begin, begin succeeds
\* while fewer than three sessions are active and fails with
\* TOO_MANY_OPERATIONS when three are; finish on an active session leaves one
\* active session less, so that the next begin succeeds.
C4_StrongboxScenario ==
    securityLevel = STRONGBOX =>
      /\ (last.op = "begin" /\ last.outcome = OK) =>
           /\ last.activeBefore < StrongboxSlots =>
                /\ last.status.isOk
                /\ NumActive = last.activeBefore + 1
           /\ last.activeBefore >= StrongboxSlots =>
                /\ last.status = fromServiceSpecificError(TOO_MANY_OPERATIONS)
                /\ NumActive = last.activeBefore
      /\ (last.op = "finish" /\ last.wasActive) =>
           /\ NumActive = last.activeBefore - 1
           /\ mNumFreeSlots > 0

\* Three sessions are active beside a finished one, the last begin succeeded.
C4_Witness ==
    /\ securityLevel = STRONGBOX
    /\ last.op = "begin" /\ last.status.isOk /\ NumActive = StrongboxSlots
    /\ \E i \in SessionIds :
         ops[i].st = "alive" /\ ops[i].beganOk /\ ~ops[i].mIsActive

\* C5: begin with no free slot returns TOO_MANY_OPERATIONS, makes no backend
\* call, creates no operation object and leaves the free count at zero.
C5_ExhaustedBegin ==
    (last.op = "begin" /\ last.freeBefore = 0) =>
      /\ last.status = fromServiceSpecificError(TOO_MANY_OPERATIONS)
      /\ last.calls = <<>>
      /\ last.id = 0
      /\ NumActive = last.activeBefore
      /\ mNumFreeSlots = 0

C5_Witness ==
    /\ last.op = "begin" /\ last.freeBefore = 0
    /\ last.status = fromServiceSpecificError(TOO_MANY_OPERATIONS)

\* C6: update on an active session: a transport failure or an error code
\* makes the session terminal and releases its slot once; OK leaves it active
\* with its slot.
C6_UpdateOutcome ==
    (last.op = "update" /\ last.wasActive) =>
      IF last.outcome # OK
      THEN /\ ~Target.mIsActive
           /\ last.released = 1
           /\ mNumFreeSlots = last.freeBefore + 1
           /\ ~last.status.isOk
      ELSE /\ Target.mIsActive
           /\ last.released = 0
           /\ mNumFreeSlots = last.freeBefore
           /\ last.status.isOk

\* An update on an active session failed with an error code of the backend.
C6_Witness ==
    /\ last.op = "update" /\ last.wasActive
    /\ last.outcome = UNKNOWN_ERROR /\ ~Target.mIsActive

\* C7: finish on an active session leaves it terminal with its slot
\* released, whatever the backend's outcome.
C7_FinishTerminal ==
    (last.op = "finish" /\ last.wasActive) =>
      /\ ~Target.mIsActive
      /\ last.released = 1
      /\ mNumFreeSlots = last.freeBefore + 1

\* A finish on an active session suffered a transport failure.
C7_Witness ==
    /\ last.op = "finish" /\ last.wasActive
    /\ last.outcome = TRANSPORT_FAILURE /\ ~Target.mIsActive

\* C8: abort releases the slot of an active session, leaves the free count
\* unchanged on a terminal one, and is forwarded to the backend each time.
C8_AbortIdempotent ==
    last.op = "abort" =>
      /\ last.calls = <<BackendCall("abort", last.handle)>>
      /\ ~Target.mIsActive
      /\ last.wasActive => /\ last.released = 1
                           /\ mNumFreeSlots = last.freeBefore + 1
      /\ ~last.wasActive => /\ last.released = 0
                            /\ mNumFreeSlots = last.freeBefore

\* An abort on a terminal session was forwarded and left the count alone.
C8_Witness ==
    /\ last.op = "abort" /\ ~last.wasActive /\ last.beganOk
    /\ Len(last.calls) = 1 /\ mNumFreeSlots = last.freeBefore

\* C9: destroying an active session issues exactly one backend abort for its
\* handle and releases its slot once, an error of that abort being logged
\* only; destroying a terminal session issues no backend call and leaves the
\* free count unchanged.
C9_DestroyIsAbort ==
    last.op = "destroy" =>
      /\ ops[last.id].st = "none"
      /\ last.wasActive =>
           /\ last.calls = <<BackendCall("abort", last.handle)>>
           /\ last.released = 1
           /\ mNumFreeSlots = last.freeBefore + 1
           /\ last.warned <=> last.outcome # OK
      /\ ~last.wasActive =>
           /\ last.calls = <<>>
           /\ last.released = 0
           /\ mNumFreeSlots = last.freeBefore
           /\ ~last.warned

\* An active session is destroyed and its implicit abort fails.
C9_Witness ==
    /\ last.op = "destroy" /\ last.wasActive
    /\ last.outcome # OK /\ last.warned /\ last.released = 1

\* C10: every facade the cache holds for a security level T wraps the device
\* discovery selected for T and has T's slot number, whichever level was
\* requested first; a successful request for T returns the cached facade of T.
C10_FacadePerTier ==
    /\ \A T \in SecurityLevels :
         mDeviceCache[T] # Null =>
           /\ mDeviceCache[T].mDevice = initializeKeymasters(env)[T]
           /\ mDeviceCache[T].mNumFreeSlots = TierMax(T)
    /\ ret.isOk => ret.device = mDeviceCache[ret.level]

\* The threads that have entered createKeyMintDevice, and those that left it.
Started == {t \in Threads : pc[t] # "idle"}
Finished == {t \in Threads : pc[t] = "done"}

\* C11: when all threads that called so far ask for the same security level
\* and discovery has a device for it, initializeKeymasters ran at most once
\* and at most one KeyMintDevice was constructed, at most one thread is past
\* the lock, and every thread that returned got that one facade.
C11_ConstructOnce ==
    \A T \in SecurityLevels :
      (/\ initializeKeymasters(env)[T] # Null
       /\ \A t \in Started : req[t] = T) =>
        /\ discoveries <= 1
        /\ constructed <= 1
        /\ Cardinality({t \in Threads :
               pc[t] \in {"test", "discover", "make", "return", "unlock"}}) <= 1
        /\ \A t \in Finished :
             /\ discoveries = 1
             /\ constructed = 1
             /\ got[t] = device_ptr
             /\ got[t] = makeKeyMintDevice(initializeKeymasters(env)[T], T)

\* All threads asked for the same level and have returned.
C11_Witness ==
    /\ NumThreads >= 2
    /\ Finished = Threads
    /\ \A t \in Threads : req[t] = req[1] /\ got[t] # Null
    /\ discoveries = 1 /\ constructed = 1

\* C12: initializeKeymasters runs at most once in the life of the process.
C12_DiscoveredOnce == discoveries <= 1

\* The instances an enumeration finds, in the order it probes them: the
\* listed names in listing order, then the unlisted "default" if it exists.
Found(version, manager) ==
    LET listed == [k \in DOMAIN manager.listed |->
                       Wrapper(version, manager.listed[k].name,
                               manager.listed[k].level)]
    IN IF ~ListsDefault(manager.listed) /\ manager.passthrough # <<>>
       THEN Append(listed, PassthroughDefault(version, manager))
       ELSE listed

\* The first instance of `found` that reports level l, Null when none does.
FirstOf(found, l) ==
    LET at == {k \in DOMAIN found : found[k].level = l}
    IN IF at = {}
       THEN Null
       ELSE found[CHOOSE k \in at : \A j \in at : k <= j]

\* C13: first-seen wins. In each enumeration every slot holds the first probed
\* instance that reports its level, for every listing order and for the extra
\* probe of "default"; and a SOFTWARE instance found by the Keymaster4
\* enumeration is the one the final table keeps (in the SOFTWARE slot, or
\* promoted into the TRUSTED_ENVIRONMENT slot), whatever the Keymaster3
\* fallback enumeration found.
C13_FirstSeenWins ==
    disc # Null /\ disc.done =>
        /\ \A l \in SecurityLevels :
               disc.first.slots[l] = FirstOf(Found(4, env.km4), l)
        /\ disc.fallback =>
               \A l \in SecurityLevels :
                   disc.second.slots[l] = FirstOf(Found(3, env.km3), l)
        /\ disc.first.slots[SOFTWARE] # Null =>
               \/ disc.table[SOFTWARE] = disc.first.slots[SOFTWARE]
               \/ /\ disc.table[SOFTWARE] = Null
                  /\ disc.table[TRUSTED_ENVIRONMENT] = disc.first.slots[SOFTWARE]

\* Keymaster4 lists one SOFTWARE instance and has an unlisted SOFTWARE
\* "default"; the fallback ran and listed two SOFTWARE instances.
C13_Witness ==
    /\ disc # Null /\ disc.done /\ disc.fallback
    /\ Len(env.km4.listed) = 1 /\ env.km4.listed[1].level = SOFTWARE
    /\ env.km4.passthrough = <<SOFTWARE>>
    /\ Len(env.km3.listed) = 2
    /\ env.km3.listed[1].level = SOFTWARE /\ env.km3.listed[2].level = SOFTWARE
    /\ Len(disc.second.warnings) = 1
    /\ disc.table[TRUSTED_ENVIRONMENT] = Wrapper(4, "strongbox", SOFTWARE)

\* The number of slots an enumeration result has filled.
Installed(result) ==
    Cardinality({l \in SecurityLevels : result.slots[l] # Null})

\* C14: every instance an enumeration finds and does not install, because the
\* slot of its level is occupied, is reported by a masking warning, for
\* listed instances and for the extra probe of "default" alike.
C14_EveryMaskedWarns ==
    disc # Null /\ disc.done =>
        /\ Len(disc.first.warnings)
               = Len(Found(4, env.km4)) - Installed(disc.first)
        /\ disc.fallback =>
               Len(disc.second.warnings)
                   = Len(Found(3, env.km3)) - Installed(disc.second)

\* The SOFTWARE instance discovery found: the Keymaster4 one, else the one of
\* the Keymaster3 fallback enumeration.
SoftFound ==
    IF disc.first.slots[SOFTWARE] # Null
    THEN disc.first.slots[SOFTWARE]
    ELSE IF disc.fallback THEN disc.second.slots[SOFTWARE] ELSE Null

\* The TRUSTED_ENVIRONMENT instance discovery found in either enumeration.
TeeFound ==
    IF disc.first.slots[TRUSTED_ENVIRONMENT] # Null
    THEN disc.first.slots[TRUSTED_ENVIRONMENT]
    ELSE IF disc.fallback
         THEN disc.second.slots[TRUSTED_ENVIRONMENT]
         ELSE Null

\* C15: after discovery, a SOFTWARE instance found with no TRUSTED_ENVIRONMENT
\* instance in either enumeration sits in the TRUSTED_ENVIRONMENT slot and the
\* SOFTWARE slot is empty; when a TRUSTED_ENVIRONMENT instance was found it
\* keeps its slot and the SOFTWARE slot keeps the SOFTWARE instance.
C15_Promotion ==
    disc # Null /\ disc.done =>
        /\ SoftFound # Null /\ TeeFound = Null =>
               /\ disc.table[TRUSTED_ENVIRONMENT] = SoftFound
               /\ disc.table[SOFTWARE] = Null
        /\ TeeFound # Null =>
               /\ disc.table[TRUSTED_ENVIRONMENT] = TeeFound
               /\ disc.table[SOFTWARE] = SoftFound

\* A Keymaster4 SOFTWARE instance, no TRUSTED_ENVIRONMENT instance anywhere,
\* and a Keymaster3 SOFTWARE instance too: the Keymaster4 one is promoted.
C15_Witness ==
    /\ disc # Null /\ disc.done /\ disc.fallback
    /\ disc.first.slots[SOFTWARE] # Null
    /\ disc.second.slots[SOFTWARE] # Null
    /\ TeeFound = Null
    /\ disc.table[TRUSTED_ENVIRONMENT] = disc.first.slots[SOFTWARE]
    /\ disc.table[SOFTWARE] = Null

\* How many times an enumeration called getService("default").
DefaultProbes(result) ==
    Cardinality({k \in DOMAIN result.probes : result.probes[k] = "default"})

\* The names an enumeration is to probe: the listed ones in listing order,
\* then "default" when it is not among them.
ExpectedProbes(manager) ==
    LET names == [k \in DOMAIN manager.listed |-> manager.listed[k].name]
    IN IF ListsDefault(manager.listed) THEN names ELSE Append(names, "default")

\* One enumeration probed "default" exactly once, in its place, and an extra
\* probe that found nothing left the result of the listing as it was.
ProbedOnce(version, manager, result) ==
    /\ DefaultProbes(result) = 1
    /\ result.probes = ExpectedProbes(manager)
    /\ ~ListsDefault(manager.listed) /\ manager.passthrough = <<>> =>
           /\ \A l \in SecurityLevels :
                  result.slots[l]
                      = FirstOf([k \in DOMAIN manager.listed |->
                                     Wrapper(version, manager.listed[k].name,
                                             manager.listed[k].level)], l)
           /\ Len(result.warnings) = Len(manager.listed) - Installed(result)

\* C16: each enumeration probes "default" exactly once, within the listing
\* when it is listed and after all listed names otherwise; an extra probe
\* that finds no instance does not stop discovery and leaves the table built
\* from the listed instances unchanged.
C16_DefaultProbedOnce ==
    disc # Null /\ disc.done =>
        /\ ProbedOnce(4, env.km4, disc.first)
        /\ disc.fallback => ProbedOnce(3, env.km3, disc.second)

\* Keymaster4 lists only "strongbox" and has no "default" (the extra probe
\* finds nothing); the fallback ran on a manager that lists "default".
C16_Witness ==
    /\ disc # Null /\ disc.done /\ disc.fallback
    /\ Len(env.km4.listed) = 1 /\ env.km4.passthrough = <<>>
    /\ disc.first.probes = <<"strongbox", "default">>
    /\ disc.first.slots[STRONGBOX] = Wrapper(4, "strongbox", STRONGBOX)
    /\ ListsDefault(env.km3.listed)
    /\ Len(disc.second.probes) = 2
    /\ disc.table[TRUSTED_ENVIRONMENT] # Null

\* ------------------------------------------------------------ key creation
Algorithms == {"RSA", "EC", "AES"}
Purposes == {"SIGN", "ENCRYPT"}

\* The KeyParameters that decide the certificate of a new key.
KeyParameters ==
    {[tag |-> "ALGORITHM", value |-> a] : a \in Algorithms}
        \cup {[tag |-> "PURPOSE", value |-> u] : u \in Purposes}
        \cup {[tag |-> "NO_AUTH_REQUIRED", value |-> "true"],
              [tag |-> "ATTESTATION_CHALLENGE", value |-> "challenge"]}

ParamLists == UNION {[1..k -> KeyParameters] : k \in 0..MaxParams}

\* getParam: the value of the first parameter with the tag, as an optional.
getParam(keyParams, tag) ==
    LET at == {k \in DOMAIN keyParams : keyParams[k].tag = tag}
    IN IF at = {}
       THEN <<>>
       ELSE <<keyParams[CHOOSE k \in at : \A j \in at : k <= j].value>>

containsParam(keyParams, tag) == getParam(keyParams, tag) # <<>>

\* What the backend's attestKey may hand to its callback.
AttestChains == {<<>>, <<"c1">>, <<"c1", "c2">>, <<"c2", "c1">>}

\* What the backend's finish may hand back as the signature.
Signatures == {<<>>, <<"sig">>}

\* The int32_t `status` of the signing callback after update: the
\* inputConsumed the backend reported, or, when the transport failed and the
\* callback of update never ran, the uninitialized value. Zero or not.
StatusValues == {0, 1}

\* KeyMintDevice::deleteKey
deleteKey(errorCode) ==
    [status |-> convertErrorCode(errorCode),
     calls |-> <<BackendCall("deleteKey", 0)>>]

\* Certificates that pushes each certificate to the front of the vector.
CertificatesReversed(certChain) ==
    [k \in DOMAIN certChain |->
         [encodedCertificate |-> certChain[Len(certChain) + 1 - k]]]

\* The Certificate objects made of the backend's certChain, in its order.
Certificates(certChain) ==
    [k \in DOMAIN certChain |-> [encodedCertificate |-> certChain[k]]]

\* The lambda signCertificate hands to signCertWith, on a facade with n free
\* slots: every way it can run. sig is the vector returned, errorCode the
\* captured variable (OK unless the lambda set it), calls the backend calls,
\* n the free slots once beginResult has gone out of scope.
SignCallback(n) ==
    UNION {
      LET b == begin(n, o1, 1)
      IN IF ~b.status.isOk
         THEN {[sig |-> <<>>, errorCode |-> b.status.err, calls |-> b.calls,
                n |-> b.n, began |-> FALSE, finished |-> FALSE]}
         ELSE UNION {
           LET u == update(b.operation, b.n, o2)
           IN UNION {
                IF status = 0
                THEN {LET d == destroy(u.operation, u.n, e)
                      IN [sig |-> <<>>, errorCode |-> OK,
                          calls |-> b.calls \o u.calls \o d.calls,
                          n |-> d.n, began |-> TRUE, finished |-> FALSE]
                      : e \in LegacyErrorCodes}
                ELSE UNION {
                  LET f == finish(u.operation, u.n, o3)
                      d == destroy(f.operation, f.n, OK)
                      calls == b.calls \o u.calls \o f.calls \o d.calls
                  IN IF ~f.status.isOk
                     THEN {[sig |-> <<>>, errorCode |-> f.status.err,
                            calls |-> calls, n |-> d.n, began |-> TRUE,
                            finished |-> FALSE]}
                     ELSE {[sig |-> result, errorCode |-> OK,
                            calls |-> calls, n |-> d.n, began |-> TRUE,
                            finished |-> TRUE] : result \in Signatures}
                  : o3 \in BackendOutcomes}
                : status \in StatusValues}
           : o2 \in BackendOutcomes}
      : o1 \in BackendOutcomes}

\* keystore::signCertWith: it may fail before it asks for the signature;
\* otherwise it runs the callback once, an empty signature is a failure, and
\* with a signature it may still fail to put it into the certificate.
signCertWith(callbacks, n) ==
    {[error |-> TRUE, errorCode |-> OK, calls |-> <<>>, n |-> n,
      began |-> FALSE, finished |-> FALSE]}
        \cup UNION {
          {[error |-> err, errorCode |-> cb.errorCode, calls |-> cb.calls,
            n |-> cb.n, began |-> cb.began, finished |-> cb.finished]
           : err \in IF cb.sig = <<>> THEN {TRUE} ELSE {TRUE, FALSE}}
          : cb \in callbacks}

\* KeyMintDevice::signCertificate for an RSA or EC key: code is the optional
\* ErrorCode returned (<<>> for std::nullopt).
signCertificate(keyParams, n) ==
    IF getParam(keyParams, "ALGORITHM")[1] \notin {"RSA", "EC"}
    THEN {[code |-> <<UNKNOWN_ERROR>>, calls |-> <<>>, n |-> n,
           began |-> FALSE, finished |-> FALSE]}
    ELSE {[code |-> IF w.error THEN <<UNKNOWN_ERROR>>
                    ELSE IF w.errorCode # OK THEN <<w.errorCode>>
                    ELSE <<>>,
           calls |-> w.calls, n |-> w.n,
           began |-> w.began, finished |-> w.finished]
          : w \in signCertWith(SignCallback(n), n)}

\* The answer other than OK, if any, that the backend gave to the creation
\* call, to exportKey or to attestKey.
NoFailure == [fn |-> "none", outcome |-> OK]
BackendFailure(fn, outcome) == [fn |-> fn, outcome |-> outcome]

\* A failure of getCertificate with ErrorCode code.
CertError(code, calls, n) ==
    [isCerts |-> FALSE, code |-> code, certs |-> <<>>, calls |-> calls,
     n |-> n, signer |-> "none", produced |-> <<>>, failed |-> NoFailure]

\* A failure of getCertificate with ErrorCode code, after the backend
\* answered `outcome` to its call `fn`.
CertBackendError(code, calls, n, fn, outcome) ==
    [CertError(code, calls, n) EXCEPT !.failed = BackendFailure(fn, outcome)]

\* The chain getCertificate returns; produced is the certChain the backend's
\* attestKey handed over, if it was asked.
CertChain(certs, calls, n, signer, produced) ==
    [isCerts |-> TRUE, code |-> OK, certs |-> certs, calls |-> calls,
     n |-> n, signer |-> signer, produced |-> produced,
     failed |-> NoFailure]

\* makeCert (the static function): exportKey on the backend, then
\* keystore::makeCert, which may fail. ok tells whether a certificate came out.
makeCert(keyParams) ==
    LET calls == <<BackendCall("exportKey", 0)>>
    IN {[ok |-> FALSE, code |-> UNKNOWN_ERROR, calls |-> calls,
         failed |-> BackendFailure("exportKey", TRANSPORT_FAILURE)]}
           \cup {[ok |-> FALSE, code |-> errorCode, calls |-> calls,
                  failed |-> BackendFailure("exportKey", errorCode)]
                 : errorCode \in KeyErrorCodes}
           \cup {[ok |-> made, code |-> IF made THEN OK ELSE UNKNOWN_ERROR,
                  calls |-> calls, failed |-> NoFailure] : made \in BOOLEAN}

\* canSelfSign that does not ask for NO_AUTH_REQUIRED.
selfSignsAnySigningKey(keyParams) ==
    \E k \in DOMAIN keyParams :
        keyParams[k].tag = "PURPOSE" /\ keyParams[k].value = "SIGN"

\* canSelfSign && noAuthRequired in getCertificate
selfSigns(keyParams) ==
    LET canSelfSign ==
            \E k \in DOMAIN keyParams :
                keyParams[k].tag = "PURPOSE" /\ keyParams[k].value = "SIGN"
        noAuthRequired == containsParam(keyParams, "NO_AUTH_REQUIRED")
    IN canSelfSign /\ noAuthRequired

\* getCertificate for an RSA or EC key: attestKey when a challenge is given,
\* else makeCert, setIssuer, signing and encodeCert.
asymmetricCertificate(keyParams, n) ==
    IF containsParam(keyParams, "ATTESTATION_CHALLENGE")
    THEN LET calls == <<BackendCall("attestKey", 0)>>
         IN {CertBackendError(UNKNOWN_ERROR, calls, n, "attestKey",
                              TRANSPORT_FAILURE)}
                \cup {CertBackendError(errorCode, calls, n, "attestKey",
                                       errorCode)
                      : errorCode \in KeyErrorCodes}
                \cup {CertChain(Certificates(certChain), calls, n, "attest",
                                certChain)
                      : certChain \in AttestChains}
    ELSE UNION {
      IF ~m.ok
      THEN {[CertError(m.code, m.calls, n) EXCEPT !.failed = m.failed]}
      ELSE \* keystore::setIssuer may fail
           {CertError(UNKNOWN_ERROR, m.calls, n)}
               \cup
           (IF selfSigns(keyParams)
            THEN UNION {
                   IF sc.code # <<>>
                   THEN {CertError(sc.code[1], m.calls \o sc.calls, sc.n)}
                   ELSE \* keystore::encodeCert may fail
                        {CertError(UNKNOWN_ERROR, m.calls \o sc.calls, sc.n),
                         CertChain(<<[encodedCertificate |-> "cert"]>>,
                                   m.calls \o sc.calls, sc.n, "self", <<>>)}
                   : sc \in signCertificate(keyParams, n)}
            ELSE \* keystore::signCert with the new EC key, encodeCert
                 {CertError(UNKNOWN_ERROR, m.calls, n),
                  CertChain(<<[encodedCertificate |-> "cert"]>>,
                            m.calls, n, "ephemeral", <<>>)})
      : m \in makeCert(keyParams)}

\* getCertificate that takes a key without ALGORITHM for a symmetric one.
getCertificateNoAlgorithmOk(keyParams, n) ==
    LET algorithm == getParam(keyParams, "ALGORITHM")
    IN IF algorithm = <<>> \/ algorithm[1] \notin {"RSA", "EC"}
       THEN {CertError(OK, <<>>, n)}
       ELSE asymmetricCertificate(keyParams, n)

\* getCertificate that has no answer for a symmetric key.
getCertificateSymmetricFails(keyParams, n) ==
    LET algorithm == getParam(keyParams, "ALGORITHM")
    IN IF algorithm = <<>> \/ algorithm[1] \notin {"RSA", "EC"}
       THEN {CertError(UNKNOWN_ERROR, <<>>, n)}
       ELSE asymmetricCertificate(keyParams, n)

\* KeyMintDevice::getCertificate on a facade with n free slots: every result
\* the backend and the certificate utilities can make it return.
getCertificate(keyParams, n) ==
    LET algorithm == getParam(keyParams, "ALGORITHM")
    IN IF algorithm = <<>>
       THEN {CertError(UNKNOWN_ERROR, <<>>, n)}
       ELSE IF algorithm[1] \notin {"RSA", "EC"}
       THEN {CertError(OK, <<>>, n)}
       ELSE asymmetricCertificate(keyParams, n)

\* KeyCreation that leaves the key in the backend when the certificate fails.
KeyCreationNoDelete(fn, errorCode, keyParams, n) ==
    LET create == <<BackendCall(fn, 0)>>
    IN IF errorCode # OK
       THEN {[status |-> convertErrorCode(errorCode), certificateChain |-> <<>>,
              calls |-> create, n |-> n, created |-> FALSE, signer |-> "none",
              produced |-> <<>>, failed |-> BackendFailure(fn, errorCode)]}
       ELSE {[status |-> convertErrorCode(cert.code),
              certificateChain |-> cert.certs,
              calls |-> create \o cert.calls,
              n |-> cert.n, created |-> TRUE, signer |-> cert.signer,
                   produced |-> cert.produced, failed |-> cert.failed]
             : cert \in getCertificate(keyParams, n)}

\* What generateKey and importKey do once the backend has answered errorCode
\* to the creation call `fn`.
KeyCreation(fn, errorCode, keyParams, n) ==
    LET create == <<BackendCall(fn, 0)>>
    IN IF errorCode # OK
       THEN {[status |-> convertErrorCode(errorCode), certificateChain |-> <<>>,
              calls |-> create, n |-> n, created |-> FALSE, signer |-> "none",
              produced |-> <<>>, failed |-> BackendFailure(fn, errorCode)]}
       ELSE {IF ~cert.isCerts
             THEN IF cert.code # OK
                  THEN [status |-> convertErrorCode(cert.code),
                        certificateChain |-> <<>>,
                        calls |-> create \o cert.calls \o deleteKey(OK).calls,
                        n |-> cert.n, created |-> TRUE, signer |-> cert.signer,
                   produced |-> cert.produced, failed |-> cert.failed]
                  ELSE [status |-> convertErrorCode(OK),
                        certificateChain |-> <<>>,
                        calls |-> create \o cert.calls,
                        n |-> cert.n, created |-> TRUE, signer |-> cert.signer,
                   produced |-> cert.produced, failed |-> cert.failed]
             ELSE [status |-> convertErrorCode(OK),
                   certificateChain |-> cert.certs,
                   calls |-> create \o cert.calls,
                   n |-> cert.n, created |-> TRUE, signer |-> cert.signer,
                   produced |-> cert.produced, failed |-> cert.failed]
             : cert \in getCertificate(keyParams, n)}

\* KeyMintDevice::generateKey: every result of one call.
generateKey(keyParams, n) ==
    {[status |-> fromServiceSpecificError(SYSTEM_ERROR),
      certificateChain |-> <<>>, calls |-> <<BackendCall("generateKey", 0)>>,
      n |-> n, created |-> FALSE, signer |-> "none", produced |-> <<>>,
      failed |-> BackendFailure("generateKey", TRANSPORT_FAILURE)]}
        \cup UNION {KeyCreation("generateKey", errorCode, keyParams, n)
                    : errorCode \in {OK} \cup KeyErrorCodes}

\* KeyMintDevice::importKey: every result of one call.
importKey(keyParams, n) ==
    {[status |-> fromServiceSpecificError(SYSTEM_ERROR),
      certificateChain |-> <<>>, calls |-> <<BackendCall("importKey", 0)>>,
      n |-> n, created |-> FALSE, signer |-> "none", produced |-> <<>>,
      failed |-> BackendFailure("importKey", TRANSPORT_FAILURE)]}
        \cup UNION {KeyCreation("importKey", errorCode, keyParams, n)
                    : errorCode \in {OK} \cup KeyErrorCodes}

NoCreation == [status |-> StatusOk, certificateChain |-> <<>>, calls |-> <<>>,
               n |-> 0, created |-> FALSE, signer |-> "none",
               produced |-> <<>>, failed |-> NoFailure]

\* A client is about to create a key with some parameters on a facade with
\* some slots free.
InitKeys ==
    /\ securityLevel \in SecurityLevels
    /\ creation \in [fn : {"none"}, keyParams : ParamLists,
                     freeBefore : 0..MaxFree, result : {NoCreation}]
    /\ mNumFreeSlots = creation.freeBefore
    /\ ops = [i \in SessionIds |-> NoOp]
    /\ last = Null
    /\ capacity = 0
    /\ held = 0
    /\ slotCall = NoSlotCall
    /\ env = Null
    /\ device_ptr = Null
    /\ mDeviceCache = Null
    /\ ret = Null
    /\ NoThreads
    /\ disc = Null
    /\ choice = Null
    /\ NoCallers

keysFrame ==
    UNCHANGED <<securityLevel, ops, last, poolVars, serviceVars, threadVars,
                disc, choice, opsVars>>

GenerateKey ==
    /\ creation.fn = "none"
    /\ \E r \in generateKey(creation.keyParams, mNumFreeSlots) :
           /\ creation' = [creation EXCEPT !.fn = "generateKey", !.result = r]
           /\ mNumFreeSlots' = r.n
    /\ keysFrame

ImportKey ==
    /\ creation.fn = "none"
    /\ \E r \in importKey(creation.keyParams, mNumFreeSlots) :
           /\ creation' = [creation EXCEPT !.fn = "importKey", !.result = r]
           /\ mNumFreeSlots' = r.n
    /\ keysFrame

NextKeys == GenerateKey \/ ImportKey

SpecKeys == InitKeys /\ [][NextKeys]_vars

\* ------------------------------------------------------------ getMaximum
\* The option lists signCertificate passes to getMaximum, best first.
PaddingOptions == <<"RSA_PSS", "RSA_PKCS1_1_5_SIGN">>
DigestOptions == <<"SHA_2_256", "SHA_2_512", "SHA_2_384", "SHA_2_224", "SHA1">>

SortedOptions(tag) == IF tag = "PADDING" THEN PaddingOptions ELSE DigestOptions

\* Padding and digest parameters a key may carry; RSA_OAEP and MD5 are in
\* neither option list.
ChoiceParameters ==
    {[tag |-> "PADDING", value |-> v]
         : v \in {"RSA_PSS", "RSA_PKCS1_1_5_SIGN", "RSA_OAEP"}}
        \cup {[tag |-> "DIGEST", value |-> v]
              : v \in {"SHA_2_256", "SHA_2_512", "SHA1", "MD5"}}

ChoiceLists == UNION {[1..k -> ChoiceParameters] : k \in 0..MaxParams}

\* std::find: the position of value in sortedOptions, one past the end when
\* it is not there.
find(sortedOptions, value) ==
    LET at == {k \in DOMAIN sortedOptions : sortedOptions[k] = value}
    IN IF at = {}
       THEN Len(sortedOptions) + 1
       ELSE CHOOSE k \in at : \A j \in at : k <= j

\* std::distance(from, to) of two positions in one vector
distance(from, to) == to - from

RECURSIVE scan(_, _, _, _, _)
\* The loop of getMaximum from parameter k on: bestSoFar afterwards.
scan(keyParams, tag, sortedOptions, k, bestSoFar) ==
    IF k > Len(keyParams)
    THEN bestSoFar
    ELSE LET it == find(sortedOptions, keyParams[k].value)
         IN scan(keyParams, tag, sortedOptions, k + 1,
                 IF keyParams[k].tag = tag /\ distance(it, bestSoFar) < 0
                 THEN it ELSE bestSoFar)

\* getMaximum(keyParams, tag, sortedOptions)
getMaximum(keyParams, tag, sortedOptions) ==
    LET end == Len(sortedOptions) + 1
        bestSoFar == scan(keyParams, tag, sortedOptions, 1, end)
    IN IF bestSoFar = end THEN sortedOptions[1] ELSE sortedOptions[bestSoFar]

\* signCertificate is about to choose the padding or the digest for a key.
InitParams ==
    /\ choice \in [done : {FALSE}, keyParams : ChoiceLists, tag : {"none"},
                   result : {"none"}]
    /\ creation = Null
    /\ disc = Null
    /\ NoThreads
    /\ NoCallers
    /\ securityLevel = Null
    /\ mNumFreeSlots = 0
    /\ ops = [i \in SessionIds |-> NoOp]
    /\ last = Null
    /\ capacity = 0
    /\ held = 0
    /\ slotCall = NoSlotCall
    /\ env = Null
    /\ device_ptr = Null
    /\ mDeviceCache = Null
    /\ ret = Null

GetMaximum(tag) ==
    /\ ~choice.done
    /\ choice' = [choice EXCEPT
                      !.done = TRUE, !.tag = tag,
                      !.result = getMaximum(choice.keyParams, tag,
                                            SortedOptions(tag))]
    /\ UNCHANGED <<securityLevel, mNumFreeSlots, ops, last, poolVars,
                   serviceVars, threadVars, disc, creation, opsVars>>

NextParams == \E tag \in {"PADDING", "DIGEST"} : GetMaximum(tag)

SpecParams == InitParams /\ [][NextParams]_vars

\* A creation call has returned for a key the backend created.
Created == creation # Null /\ creation.fn # "none" /\ creation.result.created

\* The functions of the backend calls the creation call made.
CalledFns ==
    {creation.result.calls[k].fn : k \in DOMAIN creation.result.calls}

\* The first ALGORITHM parameter of the key is one of `algorithms`.
AlgorithmIn(algorithms) ==
    \E k \in DOMAIN creation.keyParams :
        /\ creation.keyParams[k].tag = "ALGORITHM"
        /\ creation.keyParams[k].value \in algorithms
        /\ \A j \in 1..(k - 1) : creation.keyParams[j].tag # "ALGORITHM"

\* Some parameter of the key has this tag.
HasTag(tag) ==
    \E k \in DOMAIN creation.keyParams : creation.keyParams[k].tag = tag

\* C17: generateKey or importKey of a key whose algorithm is symmetric, once
\* the backend has created it, returns success with an empty certificate
\* chain, calls neither exportKey nor attestKey nor begin on the backend, and
\* does not delete the key.
C17_SymmetricNoCertificate ==
    Created /\ AlgorithmIn(Algorithms \ {"RSA", "EC"}) =>
        /\ creation.result.status = StatusOk
        /\ creation.result.certificateChain = <<>>
        /\ CalledFns \cap {"exportKey", "attestKey", "begin", "deleteKey"} = {}
        /\ creation.result.calls = <<BackendCall(creation.fn, 0)>>

\* importKey of an AES key that also carries a challenge and
\* NO_AUTH_REQUIRED has returned.
C17_Witness ==
    /\ Created /\ creation.fn = "importKey"
    /\ AlgorithmIn({"AES"})
    /\ HasTag("ATTESTATION_CHALLENGE") /\ HasTag("NO_AUTH_REQUIRED")
    /\ creation.result.status = StatusOk

\* C18: generateKey of an RSA or EC key with an attestation challenge, when
\* it succeeds, returns exactly the certificates the backend's attestKey
\* produced, as many, in the same order, with the same bytes; and whatever the
\* outcome it calls neither exportKey nor begin, update or finish.
C18_AttestationVerbatim ==
    /\ Created /\ creation.fn = "generateKey"
    /\ AlgorithmIn({"RSA", "EC"}) /\ HasTag("ATTESTATION_CHALLENGE")
    =>
    /\ "attestKey" \in CalledFns
    /\ CalledFns \cap {"exportKey", "begin", "update", "finish"} = {}
    /\ creation.result.signer \in {"attest", "none"}
    /\ creation.result.status.isOk =>
           /\ Len(creation.result.certificateChain)
                  = Len(creation.result.produced)
           /\ \A k \in DOMAIN creation.result.produced :
                  creation.result.certificateChain[k].encodedCertificate
                      = creation.result.produced[k]

\* generateKey of such a key has returned a chain of two different
\* certificates.
C18_Witness ==
    /\ Created /\ creation.fn = "generateKey"
    /\ AlgorithmIn({"RSA", "EC"}) /\ HasTag("ATTESTATION_CHALLENGE")
    /\ creation.result.status.isOk
    /\ creation.result.produced = <<"c2", "c1">>
    /\ Len(creation.result.certificateChain) = 2

\* The key parameters contain purpose SIGN and NO_AUTH_REQUIRED.
MaySelfSign ==
    /\ \E k \in DOMAIN creation.keyParams :
           creation.keyParams[k] = [tag |-> "PURPOSE", value |-> "SIGN"]
    /\ HasTag("NO_AUTH_REQUIRED")

\* The backend calls of a successful creation whose certificate the key
\* signed itself: the key is created and exported, then one operation is
\* begun, updated and finished.
SelfSignCycle ==
    <<BackendCall(creation.fn, 0), BackendCall("exportKey", 0),
      BackendCall("begin", 0), BackendCall("update", 1),
      BackendCall("finish", 1)>>

\* C19: for an RSA or EC key created without an attestation challenge, the
\* certificate is signed by the key itself, through begin, update and finish
\* on the facade, if and only if the parameters contain purpose SIGN and
\* NO_AUTH_REQUIRED; in every other case no operation is begun and an
\* ephemeral EC key signs. A successful call returns exactly one certificate.
C19_SelfSignIffAllowed ==
    Created /\ AlgorithmIn({"RSA", "EC"}) /\ ~HasTag("ATTESTATION_CHALLENGE") =>
        /\ "attestKey" \notin CalledFns
        /\ ~MaySelfSign =>
               /\ CalledFns \cap {"begin", "update", "finish", "abort"} = {}
               /\ creation.result.signer \in {"ephemeral", "none"}
        /\ MaySelfSign => creation.result.signer \in {"self", "none"}
        /\ creation.result.status.isOk =>
               /\ Len(creation.result.certificateChain) = 1
               /\ IF MaySelfSign
                  THEN /\ creation.result.signer = "self"
                       /\ creation.result.calls = SelfSignCycle
                  ELSE /\ creation.result.signer = "ephemeral"
                       /\ creation.result.calls
                              = <<BackendCall(creation.fn, 0),
                                  BackendCall("exportKey", 0)>>

\* A key with purpose SIGN and NO_AUTH_REQUIRED has been created and has
\* signed its own certificate.
C19_Witness ==
    /\ Created /\ AlgorithmIn({"RSA", "EC"}) /\ MaySelfSign
    /\ creation.result.status.isOk
    /\ creation.result.signer = "self"
    /\ creation.result.calls = SelfSignCycle
    /\ Len(creation.result.certificateChain) = 1

\* C20: when the backend created the key and generateKey or importKey then
\* returns an error, whichever step of the certificate synthesis failed, the
\* last thing the call did on the backend was deleteKey for the new key, and
\* no chain is returned; a call that succeeds does not delete the key.
C20_DeleteOnFailure ==
    Created =>
        /\ ~creation.result.status.isOk =>
               /\ creation.result.calls[Len(creation.result.calls)]
                      = BackendCall("deleteKey", 0)
               /\ creation.result.certificateChain = <<>>
        /\ creation.result.status.isOk => "deleteKey" \notin CalledFns

\* The key signed its certificate through a whole begin, update, finish cycle,
\* a later step failed, and the key was deleted.
C20_Witness ==
    /\ Created /\ ~creation.result.status.isOk
    /\ creation.result.calls
           = SelfSignCycle \o <<BackendCall("deleteKey", 0)>>

\* C21: when the backend has created the key for generateKey and exportKey
\* then fails, by a transport failure or by any error code, generateKey
\* returns UNKNOWN_ERROR.
C21_ExportFailureUnknownError ==
    /\ Created /\ creation.fn = "generateKey"
    /\ creation.result.failed.fn = "exportKey"
    => creation.result.status = fromServiceSpecificError(UNKNOWN_ERROR)

\* C22: a transport failure of a backend call made for a client request, the
\* creation call itself or the exportKey and attestKey of the certificate
\* synthesis, is returned to the caller as SYSTEM_ERROR.
C22_TransportIsSystemError ==
    /\ creation # Null /\ creation.fn # "none"
    /\ creation.result.failed.outcome = TRANSPORT_FAILURE
    => creation.result.status = fromServiceSpecificError(SYSTEM_ERROR)

\* The values of the chosen tag that the parameters carry and the option
\* list contains.
Matching ==
    {choice.keyParams[k].value : k \in
         {j \in DOMAIN choice.keyParams :
              /\ choice.keyParams[j].tag = choice.tag
              /\ \E o \in DOMAIN SortedOptions(choice.tag) :
                     SortedOptions(choice.tag)[o] = choice.keyParams[j].value}}

\* C23: getMaximum returns, of the values the parameters carry for the tag
\* and the option list contains, the one that comes first in the option
\* list, and the first option when there is none.
C23_BestOf ==
    choice # Null /\ choice.done =>
        LET options == SortedOptions(choice.tag)
        IN IF Matching = {}
           THEN choice.result = options[1]
           ELSE \E o \in DOMAIN options :
                    /\ choice.result = options[o]
                    /\ options[o] \in Matching
                    /\ \A p \in 1..(o - 1) : options[p] \notin Matching

\* ------------------------------------------------------------ concurrent callers
\* Caller threads inside begin, update, finish and abort, step by step: the
\* pool's mutex is taken and given back by claimSlot and freeSlot, the
\* backend call is a step of its own, and OperationSlot::freeSlot reads
\* mIsActive, releases, and clears mIsActive in three steps.
Callers == 1..NumCallers
OpSessions == 1..MaxOpSessions

Idle == [pc |-> "idle", op |-> "none", id |-> 0, claimed |-> FALSE,
         then |-> "return"]

\* A lock_guard that keeps the mutex when it goes out of scope.
unlockNever(m) == m

\* ~lock_guard at the end of claimSlot and freeSlot: the mutex afterwards.
unlock(m) == 0

\* The session objects not yet made and not promised to a begin under way.
UnusedSessions == {i \in OpSessions : ops[i].st = "none"}
Beginning == {t \in Callers : callers[t].op = "begin"}

\* Explored on a STRONGBOX facade, the smallest pool.
InitOps ==
    /\ securityLevel = STRONGBOX
    /\ mNumFreeSlots = KeyMintDevice(securityLevel)
    /\ ops = [i \in SessionIds |-> NoOp]
    /\ mNumFreeSlotsMutex = 0
    /\ callers = [t \in Callers |-> Idle]
    /\ overlapped = {}
    /\ last = Null
    /\ capacity = 0
    /\ held = 0
    /\ slotCall = NoSlotCall
    /\ env = Null
    /\ device_ptr = Null
    /\ mDeviceCache = Null
    /\ ret = Null
    /\ NoThreads
    /\ disc = Null
    /\ creation = Null
    /\ choice = Null

opsFrame ==
    UNCHANGED <<securityLevel, last, poolVars, serviceVars, threadVars, disc,
                creation, choice>>

\* Caller t enters KeyMintDevice::begin.
O_Begin(t) ==
    /\ callers[t].pc = "idle"
    /\ Cardinality(UnusedSessions) > Cardinality(Beginning)
    /\ callers' = [callers EXCEPT ![t] = [Idle EXCEPT !.pc = "claimSlot.lock",
                                                      !.op = "begin"]]
    /\ UNCHANGED <<mNumFreeSlots, ops, mNumFreeSlotsMutex, overlapped>>
    /\ opsFrame

\* The calls that end a session.
Terminating == {"finish", "abort"}

\* Caller t enters update, finish or abort of session i; the backend call
\* comes first in each of them. A session is noted in `overlapped` when a
\* terminating call starts on it, Active, while another one is under way.
O_Call(t, op, i) ==
    /\ callers[t].pc = "idle"
    /\ ops[i].st = "alive"
    /\ callers' = [callers EXCEPT ![t] = [Idle EXCEPT !.pc = "backend",
                                                      !.op = op, !.id = i]]
    /\ overlapped' = IF /\ op \in Terminating
                        /\ ops[i].mIsActive
                        /\ \E u \in Callers \ {t} :
                               /\ callers[u].op \in Terminating
                               /\ callers[u].id = i
                               /\ callers[u].pc = "backend"
                     THEN overlapped \cup {i}
                     ELSE overlapped
    /\ UNCHANGED <<mNumFreeSlots, ops, mNumFreeSlotsMutex>>
    /\ opsFrame

\* std::lock_guard<std::mutex> lock(mNumFreeSlotsMutex) in claimSlot, freeSlot
O_Lock(t) ==
    /\ callers[t].pc \in {"claimSlot.lock", "freeSlot.lock"}
    /\ lock_guard(mNumFreeSlotsMutex, t)
    /\ mNumFreeSlotsMutex' = t
    /\ callers' = [callers EXCEPT ![t].pc =
                       IF @ = "claimSlot.lock" THEN "claimSlot.body"
                                               ELSE "freeSlot.body"]
    /\ UNCHANGED <<mNumFreeSlots, ops, overlapped>>
    /\ opsFrame

\* The body of OperationSlots::claimSlot.
O_ClaimBody(t) ==
    /\ callers[t].pc = "claimSlot.body"
    /\ LET c == claimSlot(mNumFreeSlots)
       IN /\ mNumFreeSlots' = c.n
          /\ callers' = [callers EXCEPT ![t].pc = "claimSlot.unlock",
                                        ![t].claimed = c.claimed]
    /\ UNCHANGED <<ops, mNumFreeSlotsMutex, overlapped>>
    /\ opsFrame

\* The body of OperationSlots::freeSlot; a release made for a session is
\* counted on it.
O_FreeBody(t) ==
    /\ callers[t].pc = "freeSlot.body"
    /\ mNumFreeSlots' = OperationSlots_freeSlot(mNumFreeSlots)
    /\ ops' = IF callers[t].then = "clear"
              THEN [ops EXCEPT ![callers[t].id].released = @ + 1]
              ELSE ops
    /\ callers' = [callers EXCEPT ![t].pc = "freeSlot.unlock"]
    /\ UNCHANGED <<mNumFreeSlotsMutex, overlapped>>
    /\ opsFrame

\* claimSlot or freeSlot returns and its lock_guard goes out of scope.
O_Unlock(t) ==
    /\ callers[t].pc \in {"claimSlot.unlock", "freeSlot.unlock"}
    /\ mNumFreeSlotsMutex' = unlock(mNumFreeSlotsMutex)
    /\ callers' = [callers EXCEPT ![t] =
                       IF @.pc = "claimSlot.unlock"
                       THEN IF @.claimed THEN [@ EXCEPT !.pc = "backend"]
                                         ELSE Idle
                       ELSE IF @.then = "clear"
                            THEN [@ EXCEPT !.pc = "slot.clear"]
                            ELSE Idle]
    /\ UNCHANGED <<mNumFreeSlots, ops, overlapped>>
    /\ opsFrame

\* The backend answers the blocking call caller t is in.
O_Backend(t, outcome) ==
    /\ callers[t].pc = "backend"
    /\ LET c == callers[t]
           new == CHOOSE j \in UnusedSessions : \A k \in UnusedSessions : j <= k
       IN IF c.op = "begin"
          THEN /\ ops' = IF outcome = TRANSPORT_FAILURE
                         THEN ops
                         ELSE [ops EXCEPT ![new] =
                                   KeyMintOperation(new, outcome = OK)]
               /\ callers' = [callers EXCEPT ![t] =
                                  IF outcome = OK
                                  THEN Idle
                                  ELSE [c EXCEPT !.pc = "freeSlot.lock",
                                                 !.then = "return"]]
          ELSE /\ ops' = ops
               /\ callers' = [callers EXCEPT ![t] =
                                  IF c.op = "update" /\ outcome = OK
                                  THEN Idle
                                  ELSE [c EXCEPT !.pc = "slot.test"]]
    /\ UNCHANGED <<mNumFreeSlots, mNumFreeSlotsMutex, overlapped>>
    /\ opsFrame

\* if (mIsActive) in OperationSlot::freeSlot
O_SlotTest(t) ==
    /\ callers[t].pc = "slot.test"
    /\ callers' = [callers EXCEPT ![t] =
                       IF ops[@.id].mIsActive
                       THEN [@ EXCEPT !.pc = "freeSlot.lock", !.then = "clear"]
                       ELSE Idle]
    /\ UNCHANGED <<mNumFreeSlots, ops, mNumFreeSlotsMutex, overlapped>>
    /\ opsFrame

\* mIsActive = false in OperationSlot::freeSlot
O_SlotClear(t) ==
    /\ callers[t].pc = "slot.clear"
    /\ ops' = [ops EXCEPT ![callers[t].id].mIsActive = FALSE]
    /\ callers' = [callers EXCEPT ![t] = Idle]
    /\ UNCHANGED <<mNumFreeSlots, mNumFreeSlotsMutex, overlapped>>
    /\ opsFrame

NextOps ==
    \E t \in Callers :
        \/ O_Begin(t)
        \/ \E op \in {"update", "finish", "abort"}, i \in OpSessions :
               O_Call(t, op, i)
        \/ O_Lock(t)
        \/ O_ClaimBody(t)
        \/ O_FreeBody(t)
        \/ O_Unlock(t)
        \/ \E outcome \in BackendOutcomes : O_Backend(t, outcome)
        \/ O_SlotTest(t)
        \/ O_SlotClear(t)

SpecOps == InitOps /\ [][NextOps]_vars

\* C24: the pool's mutex is held only while claimSlot or freeSlot reads and
\* changes the counter: no caller holds it while it is inside a backend call,
\* and whoever holds it is at a step it can take without waiting.
C24_LockNotHeldInBackend ==
    callers # <<>> =>
        \A t \in Callers :
            /\ callers[t].pc = "backend" => mNumFreeSlotsMutex # t
            /\ mNumFreeSlotsMutex = t =>
                   callers[t].pc \in {"claimSlot.body", "claimSlot.unlock",
                                      "freeSlot.body", "freeSlot.unlock"}

\* One caller is inside the backend's finish for a session while another
\* one holds the mutex in freeSlot, releasing a slot.
C24_Witness ==
    /\ callers # <<>>
    /\ \E t, u \in Callers :
           /\ callers[t].pc = "backend" /\ callers[t].op = "finish"
           /\ callers[u].pc = "freeSlot.body" /\ mNumFreeSlotsMutex = u

\* How many of the backend calls of the creation call were to fn.
CallsTo(fn) ==
    Cardinality({k \in DOMAIN creation.result.calls :
                     creation.result.calls[k].fn = fn})

\* C25: a key creation that takes the self-signing path begins at most one
\* operation, and on every path of the signing (begin refused or failed,
\* update consuming nothing, update or finish failing, success) the pool has
\* as many free slots when the creation call returns as before it.
C25_SelfSignSlotNeutral ==
    /\ Created /\ AlgorithmIn({"RSA", "EC"}) /\ MaySelfSign
    /\ ~HasTag("ATTESTATION_CHALLENGE")
    =>
    /\ creation.result.n = creation.freeBefore
    /\ mNumFreeSlots = creation.freeBefore
    /\ CallsTo("begin") <= 1
    /\ CallsTo("abort") + CallsTo("finish") <= 1

\* The signing operation was begun, update consumed nothing, and the
\* operation was aborted when it went out of scope; the slot is free again.
C25_Witness ==
    /\ Created /\ MaySelfSign /\ creation.freeBefore = 1
    /\ creation.result.calls
           = <<BackendCall(creation.fn, 0), BackendCall("exportKey", 0),
               BackendCall("begin", 0), BackendCall("update", 1),
               BackendCall("abort", 1), BackendCall("deleteKey", 0)>>
    /\ mNumFreeSlots = 1

\* ------------------------------------------------------------ reconfiguration
\* The facade with its setNumFreeSlots member among the calls made on it.
ReconfigureValues == {StrongboxSlots, DefaultSlots}

\* KeyMintDevice::setNumFreeSlots
SetNumFreeSlots(numFreeSlots) ==
    /\ mNumFreeSlots' = setNumFreeSlots(numFreeSlots)
    /\ last' = Observe("setNumFreeSlots", 0, NoOp, OK, StatusOk, <<>>, 0, 0,
                       FALSE)
    /\ UNCHANGED <<securityLevel, ops, poolVars, serviceVars, restVars>>

NextReconfigure ==
    \/ Next
    \/ \E numFreeSlots \in ReconfigureValues : SetNumFreeSlots(numFreeSlots)

\* Explored on a STRONGBOX facade, the smallest pool.
InitReconfigure == Init /\ securityLevel = STRONGBOX

SpecReconfigure == InitReconfigure /\ [][NextReconfigure]_vars

\* C26: once the facade is constructed, whatever is called on it, the free
\* count changes only by one down (a claim) or one up (a release), and never
\* comes to exceed the capacity the constructor set.
C26_CapacityFixed ==
    [][/\ mNumFreeSlots' \in {mNumFreeSlots - 1, mNumFreeSlots,
                              mNumFreeSlots + 1}
       /\ mNumFreeSlots' <= TierMax(securityLevel)]_vars

\* C27: a begin that returns an error, because the pool is exhausted, the
\* transport failed or the backend reported an error code, leaves the free
\* count as it was, and the operation object it made, if any, is inactive;
\* when that object is destroyed later, no abort goes to the backend and no
\* slot is released.
C27_FailedBeginNeutral ==
    /\ last.op = "begin" /\ ~last.status.isOk =>
           /\ mNumFreeSlots = last.freeBefore
           /\ last.id \in SessionIds =>
                  /\ ~ops[last.id].mIsActive
                  /\ ops[last.id].released = 0
    /\ last.op = "destroy" /\ ~last.beganOk =>
           /\ last.calls = <<>>
           /\ last.released = 0
           /\ mNumFreeSlots = last.freeBefore

\* The object a failed begin left behind on a STRONGBOX facade has been
\* destroyed while another session holds a slot.
C27_Witness ==
    /\ last.op = "destroy" /\ ~last.beganOk /\ last.calls = <<>>
    /\ securityLevel = STRONGBOX /\ mNumFreeSlots = StrongboxSlots - 1

\* C28: a STRONGBOX instance the Keymaster4 enumeration installed is in the
\* STRONGBOX slot of the final table, whether or not the Keymaster3
\* enumeration ran.
C28_StrongboxKept ==
    disc # Null /\ disc.done /\ disc.first.slots[STRONGBOX] # Null =>
        disc.table[STRONGBOX] = disc.first.slots[STRONGBOX]

\* C29: when two terminating calls (finish and abort, or two aborts) run at
\* the same time on one Active session, the session's slot is still released
\* at most once and the free count does not exceed the facade's capacity.
C29_ConcurrentReleaseOnce ==
    callers # <<>> =>
        /\ \A i \in overlapped : ops[i].released <= 1
        /\ overlapped # {} => mNumFreeSlots <= TierMax(securityLevel)

\* C30: generateKey or importKey with parameters that contain no ALGORITHM,
\* when the backend creates the key all the same, returns UNKNOWN_ERROR and
\* no certificate chain, deletes the new key, and calls neither exportKey nor
\* attestKey.
C30_NoAlgorithm ==
    Created /\ ~HasTag("ALGORITHM") =>
        /\ creation.result.status = fromServiceSpecificError(UNKNOWN_ERROR)
        /\ creation.result.certificateChain = <<>>
        /\ creation.result.calls
               = <<BackendCall(creation.fn, 0), BackendCall("deleteKey", 0)>>

\* generateKey of a key with a challenge and purpose SIGN but no ALGORITHM has
\* returned.
C30_Witness ==
    /\ Created /\ creation.fn = "generateKey" /\ ~HasTag("ALGORITHM")
    /\ HasTag("ATTESTATION_CHALLENGE") /\ HasTag("PURPOSE")
    /\ ~creation.result.status.isOk
    /\ CallsTo("deleteKey") = 1

====
